---- MODULE Spec2Model ----
(***************************************************************************)
(* Model of clean_data.py: the Record Cleaner.  One run of clean_data() is  *)
(* a straight line of statements over an in-memory table (df); each         *)
(* statement is one action.  Text is modelled as sequences of one-character *)
(* strings so that split / strip / lower / join and the numeric parse are   *)
(* computed, not assumed.                                                   *)
(***************************************************************************)
EXTENDS Integers, Sequences, FiniteSets, TLC

VARIABLES
    csv,        \* efax_analysis.csv: [exists, cols, rows]; never written by the program
    pandas,     \* the pandas build the script runs on (it pins no version)
    pc,         \* position of the running clean_data() call
    err,        \* the exception that ended the call, "" if none
    df,         \* the in-memory table
    data,       \* list of dicts produced by to_dict
    dirExists,  \* whether src/data exists
    file,       \* src/data/cleaned_data.json: [exists, recs, complete]
    fileBefore, \* content of the output file when the current call began
    runs,       \* number of calls of clean_data() begun so far
    wr,         \* records json.dump has written in the current call
    x,          \* argument of an isolated clean_schema_list call
    y,          \* its result
    lpc         \* position of that call

vars == <<csv, pandas, pc, err, df, data, dirExists, file, fileBefore, runs, wr, x, y, lpc>>
pvars == <<csv, pandas, pc, err, df, data, dirExists, file, fileBefore, runs, wr>>
lvars == <<x, y, lpc>>

-----------------------------------------------------------------------------
(* Bounds *)
MaxRows == 2
MaxRuns == 2
MaxPieces == 3

-----------------------------------------------------------------------------
(* Text literals, as character sequences *)
sEmpty == << >>
sUnknown == <<"U","n","k","n","o","w","n">>
sUNKNOWN == <<"U","N","K","N","O","W","N">>
sunknown == <<"u","n","k","n","o","w","n">>
sNone == <<"N","o","n","e">>
snan == <<"n","a","n">>
sProduct == <<"P","r","o","d","u","c","t">>
sArticle == <<"A","r","t","i","c","l","e">>
sUnspecified == <<"U","n","s","p","e","c","i","f","i","e","d">>
sUncategorized == <<"U","n","c","a","t","e","g","o","r","i","z","e","d">>
sComma == <<",">>
sSpace == <<" ">>
sTab == <<"\t">>
sJoin == <<",", " ">>

\* characters str.strip() removes (the ones the input alphabet has)
Whitespace == {" ", "\t"}

\* str.lower(), per character, on the input alphabet
LowerChar(c) ==
    CASE c = "U" -> "u" [] c = "N" -> "n" [] c = "K" -> "k" [] c = "O" -> "o"
      [] c = "W" -> "w" [] c = "P" -> "p" [] c = "A" -> "a" [] OTHER -> c

lower(s) == [i \in 1..Len(s) |-> LowerChar(s[i])]

RECURSIVE lstrip(_)
lstrip(s) == IF s # << >> /\ Head(s) \in Whitespace THEN lstrip(Tail(s)) ELSE s

RECURSIVE rstrip(_)
rstrip(s) ==
    IF s # << >> /\ s[Len(s)] \in Whitespace THEN rstrip(SubSeq(s, 1, Len(s) - 1)) ELSE s

strip(s) == rstrip(lstrip(s))

\* str.split(','): always at least one item; n commas give n + 1 items
RECURSIVE split(_)
split(s) ==
    IF \A i \in 1..Len(s) : s[i] # ","
    THEN <<s>>
    ELSE LET p == CHOOSE i \in 1..Len(s) :
                      s[i] = "," /\ \A j \in 1..(i - 1) : s[j] # ","
         IN  <<SubSeq(s, 1, p - 1)>> \o split(SubSeq(s, p + 1, Len(s)))

\* ', '.join(items)
RECURSIVE join(_)
join(items) ==
    IF items = << >> THEN << >>
    ELSE IF Len(items) = 1 THEN items[1]
    ELSE items[1] \o sJoin \o join(Tail(items))

-----------------------------------------------------------------------------
(* Cell values: what a DataFrame cell or a to_dict value can hold *)
NaN == [k |-> "nan", s |-> << >>, n |-> 0, d |-> 1]       \* float('nan')
None == [k |-> "none", s |-> << >>, n |-> 0, d |-> 1]     \* Python None
Str(s) == [k |-> "str", s |-> s, n |-> 0, d |-> 1]
Num(n, d) == [k |-> "num", s |-> << >>, n |-> n, d |-> d] \* the number n / d

isna(v) == v.k \in {"nan", "none"}

\* no table loaded; no output file
NoDf == [cols |-> {}, dtype |-> << >>, rows |-> << >>]
NoFile == [exists |-> FALSE, recs |-> << >>, complete |-> FALSE]

-----------------------------------------------------------------------------
(* clean_schema_list, the function applied to every schema_types_found cell *)

\* str(x) of a text cell is the text itself
pystr(v) == v.s

\* the mutant of KeepItem: the comparison without .lower()
KeepItem_noLower(i) == i # sUnknown /\ i # << >>

\* the condition of the second list comprehension
KeepItem(i) == lower(i) # sunknown /\ i # << >>

\* the mutant of clean_schema_list: items are not stripped
clean_schema_list_noStrip(v) ==
    IF isna(v) \/ v = Str(<< >>) THEN << >>
    ELSE join(SelectSeq(split(pystr(v)), KeepItem))

clean_schema_list(v) ==
    IF isna(v) \/ v = Str(<< >>)
    THEN << >>
    ELSE LET parts == split(pystr(v))
             items == [i \in 1..Len(parts) |-> strip(parts[i])]
             kept == SelectSeq(items, KeepItem)
         IN  join(kept)

\* Arguments for the isolated calls: every concatenation of at most MaxPieces
\* pieces, the cells of the documented scenarios, and a missing cell.
Pieces == {sUnknown, sUNKNOWN, sProduct, sComma, sSpace, sTab}

RECURSIVE Concats(_)
Concats(n) ==
    IF n = 0 THEN {<< >>}
    ELSE LET prev == Concats(n - 1)
         IN  prev \cup {p \o q : p \in prev, q \in Pieces}

sScenario == sUnknown \o sComma \o sSpace \o sProduct \o sComma \o sSpace
sDuplicates == sProduct \o sComma \o sArticle \o sComma \o sSpace \o sProduct

ListCells ==
    {Str(s) : s \in Concats(MaxPieces) \cup {sScenario, sDuplicates}} \cup {NaN}

InitList ==
    /\ x \in ListCells
    /\ y = << >>
    /\ lpc = "call"
    /\ csv = [exists |-> FALSE, cols |-> {}, rows |-> << >>]
    /\ pandas = "2.x"
    /\ pc = "idle"
    /\ err = ""
    /\ df = NoDf
    /\ data = << >>
    /\ dirExists = FALSE
    /\ file = NoFile
    /\ fileBefore = NoFile
    /\ runs = 0
    /\ wr = 0

ApplyClean ==
    /\ lpc = "call"
    /\ y' = clean_schema_list(x)
    /\ lpc' = "ret"
    /\ UNCHANGED <<x, pvars>>

NextList == ApplyClean

SpecList == InitList /\ [][NextList]_vars

-----------------------------------------------------------------------------
(* Numbers: the decimal text pandas parses, as an exact fraction n / d *)

Digits == {"0","1","2","3","4","5","6","7","8","9"}

DigitVal(c) ==
    CASE c = "0" -> 0 [] c = "1" -> 1 [] c = "2" -> 2 [] c = "3" -> 3 [] c = "4" -> 4
      [] c = "5" -> 5 [] c = "6" -> 6 [] c = "7" -> 7 [] c = "8" -> 8 [] c = "9" -> 9

RECURSIVE IntOf(_)
IntOf(s) == IF s = << >> THEN 0 ELSE IntOf(SubSeq(s, 1, Len(s) - 1)) * 10 + DigitVal(s[Len(s)])

RECURSIVE Pow10(_)
Pow10(k) == IF k = 0 THEN 1 ELSE 10 * Pow10(k - 1)

\* 200.0 and 200 are the same number: drop trailing zeros of the fraction
RECURSIVE Reduce(_, _)
Reduce(n, d) == IF d > 1 /\ n % 10 = 0 THEN Reduce(n \div 10, d \div 10) ELSE Num(n, d)

\* unsigned decimal text: digits, optionally a point and more digits
IsNumeric(s) ==
    LET dots == {i \in 1..Len(s) : s[i] = "."}
    IN  /\ s # << >>
        /\ Cardinality(dots) <= 1
        /\ \A i \in 1..Len(s) : s[i] \in Digits \cup {"."}
        /\ s[1] \in Digits

ParseNum(s) ==
    LET dots == {i \in 1..Len(s) : s[i] = "."}
        p == IF dots = {} THEN Len(s) + 1 ELSE CHOOSE i \in dots : TRUE
        whole == SubSeq(s, 1, p - 1)
        frac == SubSeq(s, p + 1, Len(s))
    IN  Reduce(IntOf(whole) * Pow10(Len(frac)) + IntOf(frac), Pow10(Len(frac)))

-----------------------------------------------------------------------------
(* The pandas builds the script can run on: it pins no version *)
Builds == {"1.2", "1.5", "2.x"}

\* read_csv treats the text None as missing from pandas 2.0 on
NoneIsNA(b) == b = "2.x"

\* from pandas 1.3 on, where(..., None) leaves NaN in a float64 column
WhereKeepsFloatNaN(b) == b \in {"1.5", "2.x"}

-----------------------------------------------------------------------------
(* Columns *)
FreeForm ==
    {"missing_required_properties", "validation_errors", "recommended_schemas",
     "recommendation_priority"}

AllCols ==
    {"status_code", "schema_types_found", "primary_schema_type", "page_type",
     "url", "title", "word_count"} \cup FreeForm

\* the value argument of fillna
FillValues ==
    [c \in FreeForm \cup {"primary_schema_type", "page_type"} |->
        IF c = "primary_schema_type" THEN sUnspecified
        ELSE IF c = "page_type" THEN sUncategorized
        ELSE << >>]

StatusOK == 200

-----------------------------------------------------------------------------
(* read_csv *)

NAValues(b) == {sEmpty, snan} \cup (IF NoneIsNA(b) THEN {sNone} ELSE {})

\* a column is numeric when every cell that is not missing is a number
ColumnIsNumeric(f, c, b) ==
    \A i \in 1..Len(f.rows) : f.rows[i][c] \in NAValues(b) \/ IsNumeric(f.rows[i][c])

ReadCell(f, c, b, raw) ==
    IF raw \in NAValues(b) THEN NaN
    ELSE IF ColumnIsNumeric(f, c, b) THEN ParseNum(raw)
    ELSE Str(raw)

read_csv(f, b) ==
    [cols |-> f.cols,
     dtype |-> [c \in f.cols |-> IF ColumnIsNumeric(f, c, b) THEN "float64" ELSE "object"],
     rows |-> [i \in 1..Len(f.rows) |->
                 [idx |-> i - 1,
                  c |-> [c \in f.cols |-> ReadCell(f, c, b, f.rows[i][c])]]]]


-----------------------------------------------------------------------------
(* The column transforms *)

\* the mutant of to_numeric: only integer text is taken as a number
to_numeric_intOnly(v) ==
    IF v.k = "num" THEN v
    ELSE IF v.k = "str" /\ v.s # << >> /\ \A i \in 1..Len(v.s) : v.s[i] \in Digits
    THEN ParseNum(v.s)
    ELSE NaN

\* pd.to_numeric(..., errors='coerce') on one cell
to_numeric(v) ==
    IF v.k = "num" THEN v
    ELSE IF v.k = "str" /\ IsNumeric(v.s) THEN ParseNum(v.s)
    ELSE NaN

\* df['status_code'] == 200, on one cell
StatusIs200(v) == v.k = "num" /\ v.n = StatusOK * v.d

\* the mutant of Sentinels: 'None' left out of the list
Sentinels_withoutNone == {sUnknown, snan}

\* the to_replace list of both replace calls
Sentinels == {sUnknown, sNone, snan}

\* Series.replace(list, value) on one cell
replace(v, value) == IF v.k = "str" /\ v.s \in Sentinels THEN Str(value) ELSE v

\* one column of the table, as a series
Column(d, col) == [i \in 1..Len(d.rows) |-> d.rows[i].c[col]]

\* df[col] = series: the column is replaced row by row; its dtype becomes dt
SetColumn(d, col, series, dt) ==
    [d EXCEPT !.dtype = [@ EXCEPT ![col] = dt],
              !.rows = [i \in 1..Len(d.rows) |->
                           [d.rows[i] EXCEPT !.c = [@ EXCEPT ![col] = series[i]]]]]

\* the mutant of fillna: every missing cell of every column becomes ''
fillna_everyColumn(d, values) ==
    [d EXCEPT !.rows = [i \in 1..Len(d.rows) |->
        [d.rows[i] EXCEPT !.c = [c \in d.cols |->
            IF d.rows[i].c[c].k = "nan"
            THEN Str(IF c \in DOMAIN values THEN values[c] ELSE << >>)
            ELSE d.rows[i].c[c]]]]]

\* the mutant of fillna: recommendation_priority is not in the dict
fillna_noPriority(d, values) ==
    [d EXCEPT !.rows = [i \in 1..Len(d.rows) |->
        [d.rows[i] EXCEPT !.c = [c \in d.cols |->
            IF c \in DOMAIN values /\ c # "recommendation_priority"
               /\ d.rows[i].c[c].k = "nan"
            THEN Str(values[c]) ELSE d.rows[i].c[c]]]]]

\* the mutant of fillna: a column of the dict the table lacks is created
fillna_createsColumns(d, values) ==
    [cols |-> d.cols \cup DOMAIN values,
     dtype |-> [c \in d.cols \cup DOMAIN values |->
                  IF c \in d.cols THEN d.dtype[c] ELSE "object"],
     rows |-> [i \in 1..Len(d.rows) |->
        [d.rows[i] EXCEPT !.c = [c \in d.cols \cup DOMAIN values |->
            IF c \notin d.cols THEN Str(values[c])
            ELSE IF c \in DOMAIN values /\ d.rows[i].c[c].k = "nan"
            THEN Str(values[c]) ELSE d.rows[i].c[c]]]]]

\* DataFrame.fillna(dict): per column of the dict that the table has, the cells
\* that are missing get the column's value; a float64 column that receives
\* text becomes object
fillna(d, values) ==
    [d EXCEPT
       !.dtype = [c \in d.cols |->
                    IF c \in DOMAIN values
                       /\ \E i \in 1..Len(d.rows) : d.rows[i].c[c].k = "nan"
                    THEN "object" ELSE d.dtype[c]],
       !.rows = [i \in 1..Len(d.rows) |->
        [d.rows[i] EXCEPT !.c = [c \in d.cols |->
            IF c \in DOMAIN values /\ d.rows[i].c[c].k = "nan"
            THEN Str(values[c]) ELSE d.rows[i].c[c]]]]]

\* df.where(pd.notnull(df), None) on one cell of a column of dtype dt
where_None(v, dt, b) ==
    IF ~isna(v) THEN v
    ELSE IF dt = "float64" /\ WhereKeepsFloatNaN(b) THEN NaN
    ELSE None

-----------------------------------------------------------------------------
(* JSON text of one value, as json.dump writes it (allow_nan is on) *)
JNull == [k |-> "null", s |-> << >>, n |-> 0, d |-> 1]
JNaN == [k |-> "NaN", s |-> << >>, n |-> 0, d |-> 1]
JString(s) == [k |-> "string", s |-> s, n |-> 0, d |-> 1]
JNumber(n, d) == [k |-> "number", s |-> << >>, n |-> n, d |-> d]

json(v) ==
    CASE v.k = "none" -> JNull
      [] v.k = "nan" -> JNaN
      [] v.k = "str" -> JString(v.s)
      [] v.k = "num" -> JNumber(v.n, v.d)

-----------------------------------------------------------------------------
(* Input files: tables of at most MaxRows rows drawn from sample rows that   *)
(* cover every rule (the documented scenarios among them), under several     *)
(* header sets.                                                              *)

Row(st, sch, prim, page, mrp, ve, rs, rp, url, title, wc) ==
    [c \in AllCols |->
        CASE c = "status_code" -> st
          [] c = "schema_types_found" -> sch
          [] c = "primary_schema_type" -> prim
          [] c = "page_type" -> page
          [] c = "missing_required_properties" -> mrp
          [] c = "validation_errors" -> ve
          [] c = "recommended_schemas" -> rs
          [] c = "recommendation_priority" -> rp
          [] c = "url" -> url
          [] c = "title" -> title
          [] c = "word_count" -> wc]

s200 == <<"2","0","0">>
s200p0 == <<"2","0","0",".","0">>
s404 == <<"4","0","4">>
sabc == <<"a","b","c">>

SampleRows ==
    { Row(s200, sScenario, sUnknown, sEmpty, sEmpty, sEmpty, sEmpty, sEmpty,
          <<"a">>, sEmpty, sEmpty),
      Row(s200p0, sUnknown \o sComma \o sUNKNOWN, sNone, snan, <<"m">>, sEmpty, <<"r">>,
          <<"h">>, <<"b">>, <<"t">>, <<"5">>),
      Row(s200, sEmpty, sProduct, sArticle, sEmpty, <<"v">>, sEmpty, sNone,
          <<"c">>, <<"t">>, <<"7">>),
      Row(s200, sSpace \o sTab, snan, sUnknown, sUnknown, sEmpty, sEmpty, <<"h">>,
          <<"d">>, sUnknown, sabc),
      Row(s404, sProduct \o sComma \o sComma \o sArticle, sProduct, sUnknown, sEmpty,
          sEmpty, sEmpty, sEmpty, <<"e">>, <<"t">>, <<"5">>),
      Row(sabc, sunknown \o sComma, sUnknown, sArticle, sEmpty, sEmpty,
          sEmpty, sEmpty, <<"f">>, sEmpty, sEmpty),
      Row(sEmpty, sUNKNOWN, sProduct, sEmpty, sEmpty, sEmpty, sEmpty, <<"h">>,
          <<"g">>, <<"t">>, sEmpty) }

Headers ==
    { AllCols,
      AllCols \ {"status_code"},
      AllCols \ {"page_type"},
      {"status_code", "page_type", "url", "title", "word_count"},
      {"status_code", "url"} }

Tables == UNION {[1..n -> SampleRows] : n \in 0..MaxRows}

CsvFiles ==
    {[exists |-> TRUE, cols |-> h,
      rows |-> [i \in 1..Len(tb) |-> [c \in h |-> tb[i][c]]]] : h \in Headers, tb \in Tables}
    \cup {[exists |-> FALSE, cols |-> {}, rows |-> << >>]}

\* an output file left by something else
StaleFile ==
    [exists |-> TRUE, recs |-> << [c \in {"url"} |-> JString(<<"z">>)] >>, complete |-> TRUE]

-----------------------------------------------------------------------------
(* clean_data(), statement by statement *)

Init ==
    /\ csv \in CsvFiles
    /\ pandas \in Builds
    /\ pc = "idle"
    /\ err = ""
    /\ df = NoDf
    /\ data = << >>
    /\ \/ dirExists = FALSE /\ file = NoFile
       \/ dirExists = TRUE /\ file = StaleFile
    /\ fileBefore = file
    /\ runs = 0
    /\ wr = 0
    /\ x = NaN
    /\ y = << >>
    /\ lpc = "off"

\* an exception leaves the function: nothing after the raising statement runs
Raise(e) ==
    /\ pc' = "failed"
    /\ err' = e

\* the script is run (again): clean_data() is entered
Call ==
    /\ pc \in {"idle", "done", "failed"}
    /\ runs < MaxRuns
    /\ runs' = runs + 1
    /\ pc' = "start"
    /\ err' = ""
    /\ df' = NoDf
    /\ data' = << >>
    /\ fileBefore' = file
    /\ wr' = 0
    /\ UNCHANGED <<csv, pandas, dirExists, file, lvars>>

\* the mutant of ReadCsv: the output file is opened for writing before the load
ReadCsv_opensOutputFirst ==
    /\ pc = "start"
    /\ file' = [exists |-> TRUE, recs |-> << >>, complete |-> FALSE]
    /\ IF csv.exists
       THEN df' = read_csv(csv, pandas) /\ pc' = "loaded" /\ err' = err
       ELSE Raise("FileNotFoundError") /\ df' = df
    /\ UNCHANGED <<csv, pandas, data, dirExists, fileBefore, runs, wr, lvars>>

ReadCsv ==
    /\ pc = "start"
    /\ IF csv.exists
       THEN df' = read_csv(csv, pandas) /\ pc' = "loaded" /\ err' = err
       ELSE Raise("FileNotFoundError") /\ df' = df
    /\ UNCHANGED <<csv, pandas, data, dirExists, file, fileBefore, runs, wr, lvars>>

CoerceStatus ==
    /\ pc = "loaded"
    /\ IF "status_code" \in df.cols
       THEN /\ df' = SetColumn(df, "status_code",
                                [i \in 1..Len(df.rows) |->
                                    to_numeric(Column(df, "status_code")[i])],
                                "float64")
            /\ pc' = "coerced" /\ err' = err
       ELSE Raise("KeyError") /\ df' = df
    /\ UNCHANGED <<csv, pandas, data, dirExists, file, fileBefore, runs, wr, lvars>>

FilterStatus ==
    /\ pc = "coerced"
    /\ LET keep(r) == StatusIs200(r.c["status_code"])
       IN  df' = [df EXCEPT !.rows = SelectSeq(@, keep)]
    /\ pc' = "filtered"
    /\ UNCHANGED <<csv, pandas, err, data, dirExists, file, fileBefore, runs, wr, lvars>>

CleanSchema ==
    /\ pc = "filtered"
    /\ df' = IF "schema_types_found" \in df.cols
             THEN SetColumn(df, "schema_types_found",
                            [i \in 1..Len(df.rows) |->
                                Str(clean_schema_list(Column(df, "schema_types_found")[i]))],
                            IF df.rows = << >> THEN df.dtype["schema_types_found"]
                            ELSE "object")
             ELSE df
    /\ pc' = "listed"
    /\ UNCHANGED <<csv, pandas, err, data, dirExists, file, fileBefore, runs, wr, lvars>>

ReplacePrimary ==
    /\ pc = "listed"
    /\ df' = IF "primary_schema_type" \in df.cols
             THEN SetColumn(df, "primary_schema_type",
                            [i \in 1..Len(df.rows) |->
                                replace(Column(df, "primary_schema_type")[i], sUnspecified)],
                            df.dtype["primary_schema_type"])
             ELSE df
    /\ pc' = "primary"
    /\ UNCHANGED <<csv, pandas, err, data, dirExists, file, fileBefore, runs, wr, lvars>>

ReplacePage ==
    /\ pc = "primary"
    /\ df' = IF "page_type" \in df.cols
             THEN SetColumn(df, "page_type",
                            [i \in 1..Len(df.rows) |->
                                replace(Column(df, "page_type")[i], sUncategorized)],
                            df.dtype["page_type"])
             ELSE df
    /\ pc' = "page"
    /\ UNCHANGED <<csv, pandas, err, data, dirExists, file, fileBefore, runs, wr, lvars>>

FillDefaults ==
    /\ pc = "page"
    /\ df' = fillna(df, FillValues)
    /\ pc' = "filled"
    /\ UNCHANGED <<csv, pandas, err, data, dirExists, file, fileBefore, runs, wr, lvars>>

NullNormalize ==
    /\ pc = "filled"
    /\ df' = [df EXCEPT !.rows = [i \in 1..Len(df.rows) |->
                [df.rows[i] EXCEPT !.c = [c \in df.cols |->
                    where_None(df.rows[i].c[c], df.dtype[c], pandas)]]]]
    /\ pc' = "nulled"
    /\ UNCHANGED <<csv, pandas, err, data, dirExists, file, fileBefore, runs, wr, lvars>>

\* os.makedirs(..., exist_ok=True)
MakeDirs ==
    /\ pc = "nulled"
    /\ dirExists' = TRUE
    /\ pc' = "dir"
    /\ UNCHANGED <<csv, pandas, err, df, data, file, fileBefore, runs, wr, lvars>>

\* df.to_dict(orient='records'): one dict per row, the index is dropped
ToDict ==
    /\ pc = "dir"
    /\ data' = [i \in 1..Len(df.rows) |-> df.rows[i].c]
    /\ pc' = "dict"
    /\ UNCHANGED <<csv, pandas, err, df, dirExists, file, fileBefore, runs, wr, lvars>>

\* the mutant of OpenOut: mode 'a', the previous content is kept
OpenOut_append ==
    /\ pc = "dict"
    /\ file' = [file EXCEPT !.exists = TRUE, !.complete = FALSE]
    /\ pc' = "writing"
    /\ UNCHANGED <<csv, pandas, err, df, data, dirExists, fileBefore, runs, wr, lvars>>

\* open(..., 'w'): the file is created or truncated
OpenOut ==
    /\ pc = "dict"
    /\ file' = [exists |-> TRUE, recs |-> << >>, complete |-> FALSE]
    /\ pc' = "writing"
    /\ UNCHANGED <<csv, pandas, err, df, data, dirExists, fileBefore, runs, wr, lvars>>

\* open() refused by the file system (an unwritable file or directory)
OpenFail ==
    /\ pc = "dict"
    /\ Raise("PermissionError")
    /\ UNCHANGED <<csv, pandas, df, data, dirExists, file, fileBefore, runs, wr, lvars>>

\* the dict of one row as a JSON object
jsonObject(rec) == [c \in DOMAIN rec |-> json(rec[c])]

\* json.dump writes the array piece by piece; one record per step
WriteChunk ==
    /\ pc = "writing"
    /\ wr < Len(data)
    /\ file' = [file EXCEPT !.recs = Append(@, jsonObject(data[wr + 1]))]
    /\ wr' = wr + 1
    /\ UNCHANGED <<csv, pandas, pc, err, df, data, dirExists, fileBefore, runs, lvars>>

\* the closing bracket, and the with block closes the file
WriteEnd ==
    /\ pc = "writing"
    /\ wr = Len(data)
    /\ file' = [file EXCEPT !.complete = TRUE]
    /\ pc' = "written"
    /\ UNCHANGED <<csv, pandas, err, df, data, dirExists, fileBefore, runs, wr, lvars>>

\* a write refused by the file system (disk full, I/O error, or a character
\* the locale's encoding cannot encode): what was written stays in the file
WriteFail ==
    /\ pc = "writing"
    /\ Raise("OSError")
    /\ UNCHANGED <<csv, pandas, df, data, dirExists, file, fileBefore, runs, wr, lvars>>

\* print(...) and return
PrintCount ==
    /\ pc = "written"
    /\ pc' = "done"
    /\ UNCHANGED <<csv, pandas, err, df, data, dirExists, file, fileBefore, runs, wr, lvars>>

Next ==
    \/ Call
    \/ ReadCsv
    \/ CoerceStatus
    \/ FilterStatus
    \/ CleanSchema
    \/ ReplacePrimary
    \/ ReplacePage
    \/ FillDefaults
    \/ NullNormalize
    \/ MakeDirs
    \/ ToDict
    \/ OpenOut
    \/ OpenFail
    \/ WriteChunk
    \/ WriteEnd
    \/ WriteFail
    \/ PrintCount

Spec == Init /\ [][Next]_vars

-----------------------------------------------------------------------------
(* The documented normalisation of a list cell, stated without the program's *)
(* operators: tokens by comma positions, trimming by first and last          *)
(* non-blank index, "unknown" as a set of spellings.                         *)

CommaAt(s) == {i \in 1..Len(s) : s[i] = ","}

\* position of the k-th comma; 0 before the first token, Len + 1 after the last
Cut(s, k) ==
    IF k = 0 THEN 0
    ELSE IF k > Cardinality(CommaAt(s)) THEN Len(s) + 1
    ELSE CHOOSE p \in CommaAt(s) : Cardinality({q \in CommaAt(s) : q < p}) = k - 1

DocTokens(s) ==
    [k \in 1..(Cardinality(CommaAt(s)) + 1) |-> SubSeq(s, Cut(s, k - 1) + 1, Cut(s, k) - 1)]

DocTrim(t) ==
    LET ink == {i \in 1..Len(t) : t[i] \notin {" ", "\t"}}
    IN  IF ink = {} THEN << >>
        ELSE SubSeq(t, CHOOSE i \in ink : \A j \in ink : i <= j,
                       CHOOSE i \in ink : \A j \in ink : i >= j)

\* every spelling of "unknown", upper or lower case letter by letter
UnknownSpellings ==
    {t \in [1..7 -> {"u","U","n","N","k","K","o","O","w","W"}] :
        \A i \in 1..7 : t[i] \in {sunknown[i], sUNKNOWN[i]}}

DocKept(t) == t # << >> /\ t \notin UnknownSpellings

RECURSIVE DocJoin(_)
DocJoin(ts) ==
    IF ts = << >> THEN << >>
    ELSE IF Len(ts) = 1 THEN ts[1]
    ELSE DocJoin(SubSeq(ts, 1, Len(ts) - 1)) \o <<",", " ">> \o ts[Len(ts)]

DocNormalised(v) ==
    IF v.k # "str" \/ v.s = << >> THEN << >>
    ELSE LET toks == DocTokens(v.s)
             trimmed == [i \in 1..Len(toks) |-> DocTrim(toks[i])]
         IN  DocJoin(SelectSeq(trimmed, DocKept))

\* C9: the result of clean_schema_list on a cell is the cell split on commas,
\* each token trimmed, empty and "unknown" (any case) tokens removed, the rest
\* in input order (duplicates kept) joined with ", "; a missing or empty cell
\* gives the empty string; "Unknown, Product, " gives "Product".
C9_ListNormalised ==
    lpc = "ret" =>
        /\ y = DocNormalised(x)
        /\ (x = Str(sScenario) => y = sProduct)

C9_Witness ==
    /\ lpc = "ret"
    /\ x = Str(sDuplicates)
    /\ y = sProduct \o <<",", " ">> \o sArticle \o <<",", " ">> \o sProduct

-----------------------------------------------------------------------------
(* Properties of the output file of a completed run *)

\* the source row of the k-th record of the table
SrcRow(k) == csv.rows[df.rows[k].idx + 1]

\* the texts of the input alphabet that denote the number 200
DocStatus200 == {s200, s200p0}

DocSurvivors ==
    IF "status_code" \in csv.cols
    THEN {i \in 1..Len(csv.rows) : csv.rows[i]["status_code"] \in DocStatus200}
    ELSE {}

\* the k-th smallest element of a set of numbers
Kth(S, k) == CHOOSE i \in S : Cardinality({j \in S : j < i}) = k - 1

\* C1: the output records are exactly the input rows whose status_code denotes
\* 200 ("200", "200.0"), in input order; rows with a missing, non-numeric or
\* other status (404) are absent.
C1_StatusFilter ==
    pc = "done" =>
        /\ Len(file.recs) = Cardinality(DocSurvivors)
        /\ \A k \in 1..Len(file.recs) :
              /\ df.rows[k].idx + 1 = Kth(DocSurvivors, k)
              /\ file.recs[k]["url"] = JString(csv.rows[Kth(DocSurvivors, k)]["url"])
              /\ file.recs[k]["status_code"] = JNumber(200, 1)

C1_Witness ==
    /\ pc = "done"
    /\ Len(csv.rows) = 2
    /\ csv.rows[1]["status_code"] = sabc
    /\ csv.rows[2]["status_code"] = s200p0
    /\ Len(file.recs) = 1
    /\ file.recs[1]["url"] = JString(<<"b">>)

DocSentinels == {<<"U","n","k","n","o","w","n">>, <<"N","o","n","e">>, <<"n","a","n">>}

\* C2: in every output record primary_schema_type and page_type are never
\* "Unknown", "None" or "nan"; a cell that held one of them is "Unspecified",
\* respectively "Uncategorized".
C2_NoSentinel ==
    pc = "done" =>
        \A k \in 1..Len(file.recs) :
            /\ "primary_schema_type" \in csv.cols =>
                  /\ file.recs[k]["primary_schema_type"] \notin {JString(s) : s \in DocSentinels}
                  /\ SrcRow(k)["primary_schema_type"] \in DocSentinels =>
                        file.recs[k]["primary_schema_type"] = JString(sUnspecified)
            /\ "page_type" \in csv.cols =>
                  /\ file.recs[k]["page_type"] \notin {JString(s) : s \in DocSentinels}
                  /\ SrcRow(k)["page_type"] \in DocSentinels =>
                        file.recs[k]["page_type"] = JString(sUncategorized)

C2_Witness ==
    /\ pc = "done"
    /\ pandas = "1.2"
    /\ \E k \in 1..Len(file.recs) :
          /\ "primary_schema_type" \in csv.cols
          /\ SrcRow(k)["primary_schema_type"] = sNone
          /\ file.recs[k]["primary_schema_type"] = JString(sUnspecified)
          /\ "page_type" \in csv.cols
          /\ SrcRow(k)["page_type"] = snan
          /\ file.recs[k]["page_type"] = JString(sUncategorized)

\* C3: in every output record the schema_types_found text has no token that is
\* "unknown" in any case and no empty token, whatever the input cell was.
C3_NoUnknownToken ==
    (pc = "done" /\ "schema_types_found" \in csv.cols) =>
        \A k \in 1..Len(file.recs) :
            LET v == file.recs[k]["schema_types_found"]
                toks == DocTokens(v.s)
            IN  /\ v.k = "string"
                /\ v.s # << >> =>
                      \A i \in 1..Len(toks) :
                          /\ DocTrim(toks[i]) # << >>
                          /\ DocTrim(toks[i]) \notin UnknownSpellings

C3_Witness ==
    /\ pc = "done"
    /\ "schema_types_found" \in csv.cols
    /\ Len(file.recs) = 2
    /\ SrcRow(1)["schema_types_found"] = sUnknown \o sComma \o sUNKNOWN
    /\ file.recs[1]["schema_types_found"] = JString(<< >>)
    /\ SrcRow(2)["schema_types_found"] = sScenario
    /\ file.recs[2]["schema_types_found"] = JString(sProduct)

DocFreeForm ==
    {"missing_required_properties", "validation_errors", "recommended_schemas",
     "recommendation_priority"}

\* C4: a missing cell of a free-form column the source has is the empty string
\* in the output record: the key is there and the value is "", not null.
C4_FreeFormDefault ==
    pc = "done" =>
        \A k \in 1..Len(file.recs) : \A c \in DocFreeForm \cap csv.cols :
            SrcRow(k)[c] = << >> =>
                /\ c \in DOMAIN file.recs[k]
                /\ file.recs[k][c] = JString(<< >>)

C4_Witness ==
    /\ pc = "done"
    /\ \E k \in 1..Len(file.recs) :
          /\ "recommendation_priority" \in csv.cols
          /\ SrcRow(k)["recommendation_priority"] = << >>
          /\ file.recs[k]["recommendation_priority"] = JString(<< >>)

\* C5: every cell still missing after the default fill is null in the output
\* record; no output value is NaN or the text "nan".
C5_MissingIsNull ==
    pc = "done" =>
        \A k \in 1..Len(file.recs) : \A c \in DOMAIN file.recs[k] :
            /\ file.recs[k][c] # JNaN
            /\ file.recs[k][c] # JString(<<"n","a","n">>)
            /\ (SrcRow(k)[c] = << >> /\ c \notin DocFreeForm \cup
                    {"primary_schema_type", "page_type", "schema_types_found"})
                  => file.recs[k][c] = JNull

\* C6: the content a completed run leaves is the serialisation of the table of
\* that run and nothing else, whatever the file held before and whether or not
\* the directory existed; a later completed run leaves the same content.
C6_Idempotent ==
    pc = "done" =>
        /\ file = [exists |-> TRUE,
                   recs |-> [i \in 1..Len(data) |->
                               [c \in DOMAIN data[i] |-> json(data[i][c])]],
                   complete |-> TRUE]
        /\ (runs >= 2 /\ fileBefore.complete /\ fileBefore # StaleFile) => file = fileBefore

C6_Witness ==
    /\ pc = "done"
    /\ runs = 2
    /\ Len(file.recs) >= 1
    /\ fileBefore = file

\* C7 as stated: a run that fails, at whatever step, leaves the output file as
\* it was before the run.
C7_AllOrNothing == pc = "failed" => file = fileBefore

\* C7 amended: a run that fails before the output file is open (source file
\* absent, status_code column absent, open refused) leaves the output file as
\* it was, and the error reaches the caller; a run that completes has written
\* the whole array.
C7_NothingBeforeOpen ==
    /\ (pc = "failed" /\ err \in {"FileNotFoundError", "KeyError", "PermissionError"})
          => file = fileBefore
    /\ pc = "failed" => err # ""
    /\ pc = "done" => (file.complete /\ Len(file.recs) = Len(data))

C7_Witness ==
    /\ pc = "failed"
    /\ err = "KeyError"
    /\ file = StaleFile

\* C8: with a column absent from the source the run raises nothing of its own,
\* and every output record has exactly the source's column names as keys.
C8_NoFabricatedKey ==
    /\ (csv.exists /\ "status_code" \in csv.cols) => err \in {"", "PermissionError", "OSError"}
    /\ pc = "done" => \A k \in 1..Len(file.recs) : DOMAIN file.recs[k] = csv.cols

C8_Witness ==
    /\ pc = "done"
    /\ "page_type" \notin csv.cols
    /\ "schema_types_found" \in csv.cols
    /\ Len(file.recs) >= 1

DocDefaulted == DocFreeForm \cup {"primary_schema_type", "page_type"}

\* C10: the default fill changes only missing cells of the six defaulted
\* columns: a cell that holds a value keeps it, and the other columns are
\* untouched.
C10_FillFrame ==
    [][(pc = "page" /\ pc' = "filled") =>
          /\ df'.cols = df.cols
          /\ Len(df'.rows) = Len(df.rows)
          /\ \A i \in 1..Len(df.rows) : \A c \in df.cols :
                (df.rows[i].c[c].k # "nan" \/ c \notin DocDefaulted)
                    => df'.rows[i].c[c] = df.rows[i].c[c]]_vars

C10_Witness ==
    /\ pc = "filled"
    /\ df.cols = AllCols
    /\ \E i \in 1..Len(df.rows) :
          /\ df.rows[i].c["word_count"] = NaN
          /\ csv.rows[df.rows[i].idx + 1]["primary_schema_type"] = sUnknown
          /\ df.rows[i].c["primary_schema_type"] = Str(sUnspecified)
          /\ df.rows[i].c["page_type"] = Str(sUncategorized)
    /\ \E i \in 1..Len(df.rows) :
          df.rows[i].c["missing_required_properties"] = Str(sUnknown)

====
